---- MODULE Spec2Model ----
(***************************************************************************)
(* Risk scoring engine of the Client Risk Analyzer (src/app.py): the       *)
(* country-code normalizer, the sector classifier, the FRED sector stress  *)
(* estimator, the World Bank country stress estimator and the scoring pass *)
(* of the script, as state machines.                                       *)
(*                                                                         *)
(* Representation.  A text is a sequence of one-character strings.  A      *)
(* float is a record: NaN, or Num(v) with v an integer number of 1/Scale   *)
(* units (fixed point; divisions truncate).  A table cell is a record      *)
(* [kind, n, s]: "null" (NaN/None), "int" (n), "float" (n tenths), "inf",  *)
(* "str" (the text s), or "absent" when the batch has no such column.      *)
(***************************************************************************)
EXTENDS Integers, Sequences, FiniteSets, TLC

VARIABLES
    sect,   \* sector classifier run: [op, NAICS, SIC, code2, label, called]
    norm,   \* country normalizer run: [val, code, again, called]
    fredc,  \* sector stress run: [resp, good_high, n, result, called]
    wbc,    \* country stress run: [codes, resp, z, stress, called]
    pc,     \* position of the script
    run     \* the script's data frame and tables

vars == <<sect, norm, fredc, wbc, pc, run>>

\* ------------------------------------------------------------ bounds
\* Integer codes -3 .. CodeMax are given to the classifier.
CodeMax == 101
\* Free country texts have at most MaxLen characters.
MaxLen == 3
\* A fetched FRED series has at most MaxSeriesLen observations.
MaxSeriesLen == 10
\* The country stress estimator is given at most MaxCodes codes.
MaxCodes == 2
\* A batch has at most MaxRows records.
MaxRows == 3
\* Fixed-point resolution: a float v is the integer v * Scale.
Scale == 100

\* ------------------------------------------------------------ values
NaN == [k |-> "nan", v |-> 0]
Num(v) == [k |-> "num", v |-> v]
IsNaN(x) == x.k = "nan"
fillna(x, d) == IF IsNaN(x) THEN d ELSE x

None == [k |-> "none", s |-> <<>>]
Str(s) == [k |-> "str", s |-> s]

Null == [kind |-> "null", n |-> 0, s |-> <<>>]
Absent == [kind |-> "absent", n |-> 0, s |-> <<>>]
Inf == [kind |-> "inf", n |-> 0, s |-> <<>>]
IntCell(n) == [kind |-> "int", n |-> n, s |-> <<>>]
FloatCell(tenths) == [kind |-> "float", n |-> tenths, s |-> <<>>]
StrCell(s) == [kind |-> "str", n |-> 0, s |-> s]

Min(a, b) == IF a < b THEN a ELSE b
Max(a, b) == IF a > b THEN a ELSE b
Abs(a) == IF a < 0 THEN -a ELSE a
Sgn(a) == IF a < 0 THEN -1 ELSE IF a > 0 THEN 1 ELSE 0
\* Division truncating toward zero.
TDiv(a, b) == Sgn(a) * Sgn(b) * (Abs(a) \div Abs(b))

\* ------------------------------------------------------------ text
Digits == <<"0", "1", "2", "3", "4", "5", "6", "7", "8", "9">>
Lower == <<"a", "b", "c", "d", "e", "f", "g", "h", "i", "j", "k", "l", "m",
           "n", "o", "p", "q", "r", "s", "t", "u", "v", "w", "x", "y", "z">>
Upper == <<"A", "B", "C", "D", "E", "F", "G", "H", "I", "J", "K", "L", "M",
           "N", "O", "P", "Q", "R", "S", "T", "U", "V", "W", "X", "Y", "Z">>

IsDigit(c) == \E i \in 1..10 : Digits[i] = c
DigitVal(c) == (CHOOSE i \in 1..10 : Digits[i] = c) - 1
IsSpace(c) == c = " "

\* str.upper(), one character at a time.
upper_char(c) ==
    IF \E i \in 1..26 : Lower[i] = c
    THEN Upper[CHOOSE i \in 1..26 : Lower[i] = c]
    ELSE c
upper(s) == [i \in 1..Len(s) |-> upper_char(s[i])]

\* str.strip(): leading and trailing white space removed.
RECURSIVE lstrip(_)
lstrip(s) == IF s # <<>> /\ IsSpace(s[1]) THEN lstrip(Tail(s)) ELSE s
RECURSIVE rstrip(_)
rstrip(s) ==
    IF s # <<>> /\ IsSpace(s[Len(s)])
    THEN rstrip(SubSeq(s, 1, Len(s) - 1))
    ELSE s
strip(s) == rstrip(lstrip(s))

\* str(n) of an integer.
RECURSIVE nat_str(_)
nat_str(n) ==
    IF n < 10 THEN <<Digits[n + 1]>>
    ELSE Append(nat_str(n \div 10), Digits[(n % 10) + 1])
int_str(n) == IF n < 0 THEN <<"-">> \o nat_str(-n) ELSE nat_str(n)

\* s[:2]
first_two(s) == SubSeq(s, 1, Min(2, Len(s)))

RECURSIVE digits_val(_)
digits_val(s) ==
    IF s = <<>> THEN 0
    ELSE 10 * digits_val(SubSeq(s, 1, Len(s) - 1)) + DigitVal(s[Len(s)])

\* int(text): optional white space around an optional sign and one or more
\* digits; anything else raises ValueError.
int_of_text(s) ==
    LET t == strip(s)
        signed == t # <<>> /\ t[1] \in {"-", "+"}
        body == IF signed THEN Tail(t) ELSE t
    IN  IF body # <<>> /\ \A i \in 1..Len(body) : IsDigit(body[i])
        THEN [ok |-> TRUE,
              val |-> IF signed /\ t[1] = "-" THEN -digits_val(body)
                      ELSE digits_val(body)]
        ELSE [ok |-> FALSE, val |-> 0]

\* pd.isna(cell)
isna(cell) == cell.kind = "null"

\* int(cell): an int as it is, a float truncated toward zero; an infinite
\* float raises OverflowError and a non-numeric text ValueError.
int_of_cell(cell) ==
    CASE cell.kind = "int" -> [ok |-> TRUE, val |-> cell.n]
      [] cell.kind = "float" -> [ok |-> TRUE, val |-> TDiv(cell.n, 10)]
      [] cell.kind = "str" -> int_of_text(cell.s)
      [] OTHER -> [ok |-> FALSE, val |-> 0]

\* ------------------------------------------------------------ sectors
NaturalResources == "Natural Resources & Mining"
Utilities == "Utilities"
Construction == "Construction"
Manufacturing == "Manufacturing"
WholesaleTrade == "Wholesale Trade"
RetailTrade == "Retail Trade"
Transportation == "Transportation & Warehousing"
Information == "Information"
FinanceInsurance == "Finance & Insurance"
RealEstate == "Real Estate & Rental"
Professional == "Professional, Scientific & Technical"
ManagementOfCompanies == "Management of Companies"
AdminSupport == "Admin & Support"
EducationHealthcare == "Education & Healthcare"
ArtsEntertainment == "Arts, Entertainment & Accommodation"
OtherServices == "Other Services & Public Admin"
OtherUnknown == "Other / Unknown"

Between(lo, x, hi) == lo <= x /\ x <= hi

\* The rule table with "Information" tested before the two trade rules.
sector_from_two_digit_reordered(code2) ==
    IF Between(1, code2, 9) \/ Between(10, code2, 14) \/ Between(11, code2, 21)
    THEN NaturalResources
    ELSE IF code2 = 22 THEN Utilities
    ELSE IF code2 = 23 \/ Between(15, code2, 17) THEN Construction
    ELSE IF Between(31, code2, 33) \/ Between(20, code2, 39) THEN Manufacturing
    ELSE IF code2 = 51 \/ code2 = 48 THEN Information
    ELSE IF code2 = 42 \/ Between(50, code2, 51) THEN WholesaleTrade
    ELSE IF Between(44, code2, 45) \/ Between(52, code2, 59) THEN RetailTrade
    ELSE IF Between(48, code2, 49) THEN Transportation
    ELSE IF code2 = 52 \/ Between(60, code2, 67) THEN FinanceInsurance
    ELSE IF code2 = 53 \/ Between(65, code2, 67) THEN RealEstate
    ELSE IF code2 = 54 \/ Between(70, code2, 73) THEN Professional
    ELSE IF code2 = 55 THEN ManagementOfCompanies
    ELSE IF code2 = 56 \/ Between(72, code2, 73) THEN AdminSupport
    ELSE IF Between(61, code2, 62) \/ Between(80, code2, 89)
    THEN EducationHealthcare
    ELSE IF Between(71, code2, 72) \/ Between(78, code2, 79)
    THEN ArtsEntertainment
    ELSE IF Between(81, code2, 92) \/ Between(90, code2, 99)
    THEN OtherServices
    ELSE OtherUnknown

sector_from_two_digit(code2) ==
    IF Between(1, code2, 9) \/ Between(10, code2, 14) \/ Between(11, code2, 21)
    THEN NaturalResources
    ELSE IF code2 = 22 THEN Utilities
    ELSE IF code2 = 23 \/ Between(15, code2, 17) THEN Construction
    ELSE IF Between(31, code2, 33) \/ Between(20, code2, 39) THEN Manufacturing
    ELSE IF code2 = 42 \/ Between(50, code2, 51) THEN WholesaleTrade
    ELSE IF Between(44, code2, 45) \/ Between(52, code2, 59) THEN RetailTrade
    ELSE IF Between(48, code2, 49) THEN Transportation
    ELSE IF code2 = 51 \/ code2 = 48 THEN Information
    ELSE IF code2 = 52 \/ Between(60, code2, 67) THEN FinanceInsurance
    ELSE IF code2 = 53 \/ Between(65, code2, 67) THEN RealEstate
    ELSE IF code2 = 54 \/ Between(70, code2, 73) THEN Professional
    ELSE IF code2 = 55 THEN ManagementOfCompanies
    ELSE IF code2 = 56 \/ Between(72, code2, 73) THEN AdminSupport
    ELSE IF Between(61, code2, 62) \/ Between(80, code2, 89)
    THEN EducationHealthcare
    ELSE IF Between(71, code2, 72) \/ Between(78, code2, 79)
    THEN ArtsEntertainment
    ELSE IF Between(81, code2, 92) \/ Between(90, code2, 99)
    THEN OtherServices
    ELSE OtherUnknown

\* int(str(int(cell))[:2]): the two-digit prefix, or the exception.
two_digit_prefix(cell) ==
    LET whole == int_of_cell(cell)
    IN  IF whole.ok THEN int_of_text(first_two(int_str(whole.val)))
        ELSE [ok |-> FALSE, val |-> 0]

\* One branch of infer_sector: the column is in the row, its cell is not
\* NA and the prefix is extracted without an exception.
code_usable(cell) ==
    cell.kind # "absent" /\ ~isna(cell) /\ two_digit_prefix(cell).ok

\* infer_sector with the SIC branch tried first.
infer_sector_sic_first(row) ==
    IF code_usable(row.SIC)
    THEN sector_from_two_digit(two_digit_prefix(row.SIC).val)
    ELSE IF code_usable(row.NAICS)
    THEN sector_from_two_digit(two_digit_prefix(row.NAICS).val)
    ELSE OtherUnknown

infer_sector(row) ==
    IF code_usable(row.NAICS)
    THEN sector_from_two_digit(two_digit_prefix(row.NAICS).val)
    ELSE IF code_usable(row.SIC)
    THEN sector_from_two_digit(two_digit_prefix(row.SIC).val)
    ELSE OtherUnknown

\* ------------------------------------------------------------ countries
T_US == <<"U", "S">>
T_USA == <<"U", "S", "A">>
T_UNITED_STATES ==
    <<"U", "N", "I", "T", "E", "D", " ", "S", "T", "A", "T", "E", "S">>
T_CHINA == <<"C", "H", "I", "N", "A">>
T_PR_CHINA == <<"P", ".", "R", ".", " ", "C", "H", "I", "N", "A">>
T_PEOPLE_S_REPUBLIC ==
    <<"P", "E", "O", "P", "L", "E", "'", "S", " ", "R", "E", "P", "U", "B",
      "L", "I", "C", " ", "O", "F", " ", "C", "H", "I", "N", "A">>
T_PEOPLES_REPUBLIC ==
    <<"P", "E", "O", "P", "L", "E", "S", " ", "R", "E", "P", "U", "B",
      "L", "I", "C", " ", "O", "F", " ", "C", "H", "I", "N", "A">>
T_UK == <<"U", "K">>
T_UNITED_KINGDOM ==
    <<"U", "N", "I", "T", "E", "D", " ", "K", "I", "N", "G", "D", "O", "M">>
T_CN == <<"C", "N">>
T_GB == <<"G", "B">>

\* The alias table of normalize_country_code, as (text, code) pairs.
manual ==
    { <<T_US, T_US>>, <<T_USA, T_US>>, <<T_UNITED_STATES, T_US>>,
      <<T_CHINA, T_CN>>, <<T_PR_CHINA, T_CN>>, <<T_PEOPLE_S_REPUBLIC, T_CN>>,
      <<T_PEOPLES_REPUBLIC, T_CN>>, <<T_UK, T_GB>>, <<T_UNITED_KINGDOM, T_GB>> }

in_manual(s) == \E e \in manual : e[1] = s
manual_get(s) == (CHOOSE e \in manual : e[1] = s)[2]

\* str(val) of a cell: the text itself, "nan" for a missing value.
str_of_cell(cell) ==
    CASE cell.kind = "str" -> cell.s
      [] cell.kind = "int" -> int_str(cell.n)
      [] OTHER -> <<"n", "a", "n">>

\* normalize_country_code with the length test before the alias lookup.
normalize_country_code_length_first(val) ==
    IF isna(val) THEN None
    ELSE LET s == upper(strip(str_of_cell(val)))
         IN  IF Len(s) = 2 THEN Str(s)
             ELSE IF in_manual(s) THEN Str(manual_get(s))
             ELSE None

normalize_country_code(val) ==
    IF isna(val) THEN None
    ELSE LET s == upper(strip(str_of_cell(val)))
         IN  IF in_manual(s) THEN Str(manual_get(s))
             ELSE IF Len(s) = 2 THEN Str(s)
             ELSE None

\* ------------------------------------------------------------ statistics
RECURSIVE sum_seq(_)
sum_seq(xs) == IF xs = <<>> THEN 0 ELSE xs[1] + sum_seq(Tail(xs))

\* Series.dropna(), and the numbers of a sequence without missing values.
dropna(s) == SelectSeq(s, LAMBDA x : ~IsNaN(x))
numbers(s) == [i \in 1..Len(s) |-> s[i].v]

\* The largest r in lo..hi with r * r <= v.
RECURSIVE sqrt_search(_, _, _)
sqrt_search(v, lo, hi) ==
    IF lo >= hi THEN lo
    ELSE LET mid == (lo + hi + 1) \div 2
         IN  IF mid * mid <= v THEN sqrt_search(v, mid, hi)
             ELSE sqrt_search(v, lo, mid - 1)
isqrt(v) == sqrt_search(v, 0, Min(v, 46340))

\* n * x - sum(xs): n times the deviation of x from the mean of xs.
deviation(x, xs) == Len(xs) * x - sum_seq(xs)
\* n * n times the sum of squared deviations from the mean.
squares(xs) ==
    sum_seq([i \in 1..Len(xs) |-> deviation(xs[i], xs) * deviation(xs[i], xs)])

\* Series.std() (sample standard deviation, missing values skipped): "nan"
\* with fewer than two values, "zero" when they are all equal.
std_kind(xs) ==
    IF Len(xs) < 2 THEN "nan" ELSE IF squares(xs) = 0 THEN "zero" ELSE "num"

\* (x - mean) / std in 1/Scale units, for std_kind(xs) = "num":
\* z = d * sqrt(n - 1) / sqrt(squares), d = n * x - sum.
zscore(x, xs) ==
    LET d == deviation(x, xs)
    IN  Sgn(d) * isqrt((d * d * (Len(xs) - 1) * Scale * Scale) \div squares(xs))

\* max(min(v, hi), lo)
clip(v, lo, hi) == Max(Min(v, hi), lo)

\* ------------------------------------------------------------ FRED
\* FRED_SECTOR_INFO: sector -> (series, good_high).
FRED_SECTOR_INFO ==
    [s \in {Manufacturing, RetailTrade, WholesaleTrade, FinanceInsurance,
            Information, Construction, RealEstate, NaturalResources,
            Transportation, EducationHealthcare, AdminSupport, Professional,
            ManagementOfCompanies, ArtsEntertainment, OtherServices,
            Utilities} |->
       CASE s \in {Manufacturing, Information, Professional,
                   ManagementOfCompanies, Utilities}
              -> [series |-> "INDPRO", good_high |-> TRUE]
         [] s \in {RetailTrade, WholesaleTrade}
              -> [series |-> "RSXFS", good_high |-> TRUE]
         [] s = FinanceInsurance
              -> [series |-> "STLFSI4", good_high |-> FALSE]
         [] s \in {Construction, RealEstate}
              -> [series |-> "HOUST", good_high |-> TRUE]
         [] s = NaturalResources
              -> [series |-> "IPMINE", good_high |-> TRUE]
         [] s = Transportation
              -> [series |-> "TSIFRGHT", good_high |-> TRUE]
         [] s = EducationHealthcare
              -> [series |-> "CPIMEDSL", good_high |-> FALSE]
         [] OTHER -> [series |-> "UNRATE", good_high |-> FALSE]]

\* The fewest observations a series needs.
MinObservations == 10
\* The cap on a stress z-score, and the factor applied after it.
StressCap == 3
StressFactor == 2

\* A response of fred.get_series: the call raises, or returns a series.
FetchFails == [ok |-> FALSE, series |-> <<>>]
Series(s) == [ok |-> TRUE, series |-> s]

\* get_sector_stress without the test of the number of observations.
get_sector_stress_no_minimum(resp, good_high) ==
    IF ~resp.ok THEN Num(0)
    ELSE LET s == numbers(dropna(resp.series))
         IN  IF s = <<>> THEN NaN
             ELSE IF std_kind(s) # "num" THEN Num(0)
             ELSE LET z == zscore(s[Len(s)], s)
                      stress == IF good_high THEN -z ELSE z
                  IN  Num(clip(stress, -StressCap * Scale, StressCap * Scale)
                          * StressFactor)

get_sector_stress(resp, good_high) ==
    IF ~resp.ok THEN Num(0)
    ELSE LET s == numbers(dropna(resp.series))
         IN  IF Len(s) < MinObservations THEN Num(0)
             ELSE IF std_kind(s) # "num" THEN Num(0)
             ELSE LET z == zscore(s[Len(s)], s)
                      stress == IF good_high THEN -z ELSE z
                  IN  Num(clip(stress, -StressCap * Scale, StressCap * Scale)
                          * StressFactor)

\* ------------------------------------------------------------ World Bank
\* The keys of WB_INDICATORS, in the order of the z-score loop.
Indicators == <<"gdp_growth", "inflation", "external_debt_gni", "pol_stability">>
IndicatorSet == {Indicators[i] : i \in 1..Len(Indicators)}

\* A response of the indicator request: "error" (the request, the status
\* check or the JSON decoding raises), "short" (the payload is not a list of
\* two elements), "entries" (the payload's second element is a list of
\* entries, e holding their "value" fields), "null_entries" (the payload's
\* second element is null).
WBError == [kind |-> "error", e |-> <<>>]
WBShort == [kind |-> "short", e |-> <<>>]
WBEntries(e) == [kind |-> "entries", e |-> e]
WBNullEntries == [kind |-> "null_entries", e |-> <<>>]

\* float(val) of an entry's value: a number as it is, a text parsed.
float_of_cell(cell) ==
    CASE cell.kind = "int" -> [ok |-> TRUE, val |-> Num(cell.n)]
      [] cell.kind = "str" ->
           LET r == int_of_text(cell.s)
           IN  [ok |-> r.ok, val |-> Num(r.val)]
      [] OTHER -> [ok |-> FALSE, val |-> NaN]

\* The loop over the entries: the first value that is not None and that
\* float() converts, np.nan when there is none.
first_value(e) ==
    LET usable(i) == ~isna(e[i]) /\ float_of_cell(e[i]).ok
    IN  IF \E i \in 1..Len(e) : usable(i)
        THEN float_of_cell(
                 e[CHOOSE i \in 1..Len(e) :
                     usable(i) /\ \A j \in 1..(i - 1) : ~usable(j)]).val
        ELSE NaN

\* wb_latest_value: the value, or raised when the loop over the entries
\* (which is outside the try) is given a payload whose entries are null.
wb_latest_value(resp) ==
    CASE resp.kind \in {"error", "short"} -> [raised |-> FALSE, val |-> NaN]
      [] resp.kind = "null_entries" -> [raised |-> TRUE, val |-> NaN]
      [] OTHER -> [raised |-> FALSE, val |-> first_value(resp.e)]

\* A sequence given by a rule, with every element computed once.
list(s) == SubSeq(s, 1, Len(s))

\* The z-score column without the test of the standard deviation: a division
\* by a zero or NaN standard deviation gives NaN.
z_column_no_std_test(col) ==
    LET xs == numbers(dropna(col))
        kind == std_kind(xs)
    IN  list([i \in 1..Len(col) |->
                IF kind # "num" \/ IsNaN(col[i]) THEN NaN
                ELSE Num(zscore(col[i].v, xs))])

\* One z-score column: 0.0 for every row when the standard deviation is zero
\* or NaN, (s - mean) / std otherwise (NaN where s is NaN).
z_column(col) ==
    LET xs == numbers(dropna(col))
        kind == std_kind(xs)
    IN  list([i \in 1..Len(col) |->
                IF kind # "num" THEN Num(0)
                ELSE IF IsNaN(col[i]) THEN NaN
                ELSE Num(zscore(col[i].v, xs))])

\* The cap on the combined z-scores, and the factor applied after it.
WBCap == 3
WBFactor == 2

\* 0.3 inflation_z + 0.3 external_debt_gni_z - 0.2 gdp_growth_z
\* - 0.2 pol_stability_z, clipped and scaled; NaN when a term is NaN.
wb_stress(z) ==
    IF \E c \in IndicatorSet : IsNaN(z[c]) THEN NaN
    ELSE Num(clip(TDiv(3 * z.inflation.v + 3 * z.external_debt_gni.v
                       - 2 * z.gdp_growth.v - 2 * z.pol_stability.v, 10),
                  -WBCap * Scale, WBCap * Scale) * WBFactor)

\* The rows of the first loop: one per code that is not None, with the four
\* fetched metrics (v) and whether a fetch raised.
wb_rows(country_codes, respOf) ==
    LET codes == SelectSeq(country_codes, LAMBDA c : c # None)
        fetch(i, c) == wb_latest_value(respOf[<<codes[i].s, c>>])
    IN  list([i \in 1..Len(codes) |->
          [CountryCode |-> codes[i],
           raised |-> \E c \in IndicatorSet : fetch(i, c).raised,
           v |-> [gdp_growth |-> fetch(i, "gdp_growth").val,
                  inflation |-> fetch(i, "inflation").val,
                  external_debt_gni |-> fetch(i, "external_debt_gni").val,
                  pol_stability |-> fetch(i, "pol_stability").val]]])

\* The z-score loop and WB_Stress on the rows of the first loop: the frame
\* of (CountryCode, the fetched values, the z-scores, WB_Stress) rows, or
\* raised when a fetch raised.
wb_frame(rows) ==
    LET col(c) == list([i \in 1..Len(rows) |-> rows[i].v[c]])
        gdp_growth_z == z_column(col("gdp_growth"))
        inflation_z == z_column(col("inflation"))
        external_debt_gni_z == z_column(col("external_debt_gni"))
        pol_stability_z == z_column(col("pol_stability"))
        z(i) == [gdp_growth |-> gdp_growth_z[i],
                 inflation |-> inflation_z[i],
                 external_debt_gni |-> external_debt_gni_z[i],
                 pol_stability |-> pol_stability_z[i]]
    IN  IF \E i \in 1..Len(rows) : rows[i].raised
        THEN [raised |-> TRUE, frame |-> <<>>]
        ELSE [raised |-> FALSE,
              frame |->
                list([i \in 1..Len(rows) |->
                   [CountryCode |-> rows[i].CountryCode,
                    value |-> rows[i].v,
                    z |-> z(i),
                    WB_Stress |-> wb_stress(z(i))]])]

\* The one element of a one-element set.
the(S) == CHOOSE x \in S : TRUE

\* get_world_bank_country_stress(country_codes), respOf[<<code, indicator>>]
\* being the provider's response.
get_world_bank_country_stress(country_codes, respOf) ==
    the({wb_frame(rows) : rows \in {wb_rows(country_codes, respOf)}})

\* ------------------------------------------------------------ scoring pass
\* a + b on floats: NaN when either is NaN.
fadd(a, b) == IF IsNaN(a) \/ IsNaN(b) THEN NaN ELSE Num(a.v + b.v)

\* pd.to_numeric(cell, errors="coerce"): a number as it is, a text parsed,
\* NaN for a missing value and for a text that is no number.
to_numeric(cell) ==
    CASE cell.kind = "int" -> Num(cell.n * Scale)
      [] cell.kind = "float" -> Num(TDiv(cell.n * Scale, 10))
      [] cell.kind = "str" ->
           IF int_of_text(cell.s).ok THEN Num(int_of_text(cell.s).val * Scale)
           ELSE NaN
      [] OTHER -> NaN

\* a < b on texts of capital letters, as sorted() orders them.
letter_rank(c) == CHOOSE i \in 0..26 : (i = 0 /\ \A j \in 1..26 : Upper[j] # c)
                                       \/ (i > 0 /\ Upper[i] = c)
text_less(a, b) ==
    \E k \in 1..(Min(Len(a), Len(b)) + 1) :
       /\ \A j \in 1..(k - 1) : a[j] = b[j]
       /\ IF k > Len(a) THEN k <= Len(b)
          ELSE k <= Len(b) /\ letter_rank(a[k]) < letter_rank(b[k])
RECURSIVE sorted(_)
sorted(S) ==
    IF S = {} THEN <<>>
    ELSE LET m == CHOOSE x \in S : \A y \in S : ~text_less(y.s, x.s)
         IN  <<m>> \o sorted(S \ {m})

\* sorted({c for c in df["CountryCode"].unique() if c is not None})
unique_codes(CountryCode) ==
    sorted({CountryCode[i] : i \in 1..Len(CountryCode)} \ {None})

\* wb_map.get(code): WB_Stress of the frame's row of the code, NaN when the
\* frame has no such row.
wb_map(frame, code) ==
    IF \E j \in 1..Len(frame) : frame[j].CountryCode = code
    THEN frame[CHOOSE j \in 1..Len(frame) : frame[j].CountryCode = code].WB_Stress
    ELSE NaN

\* df["CountryCode"].map(wb_map) without the fillna(0.0).
map_country_risk_no_fillna(CountryCode, frame) ==
    [i \in 1..Len(CountryCode) |-> wb_map(frame, CountryCode[i])]

\* df["CountryCode"].map(wb_map).fillna(0.0)
map_country_risk(CountryCode, frame) ==
    [i \in 1..Len(CountryCode) |-> fillna(wb_map(frame, CountryCode[i]), Num(0))]

\* A mask that selects every record.
us_mask_everyone(CountryCode) == [i \in 1..Len(CountryCode) |-> TRUE]

\* df["CountryCode"] == "US"
us_mask(CountryCode) == [i \in 1..Len(CountryCode) |-> CountryCode[i] = Str(T_US)]

\* The series of the sectors in use that FRED_SECTOR_INFO knows.
series_in_use(us_sectors) ==
    {FRED_SECTOR_INFO[x].series : x \in us_sectors \cap DOMAIN FRED_SECTOR_INFO}

\* The loop over us_sectors: 0.0 for a sector FRED_SECTOR_INFO does not
\* know, get_sector_stress of its series otherwise (respOf[series] being the
\* provider's response).
sector_adj(us_sectors, respOf) ==
    [x \in us_sectors |->
       IF x \notin DOMAIN FRED_SECTOR_INFO THEN Num(0)
       ELSE get_sector_stress(respOf[FRED_SECTOR_INFO[x].series],
                              FRED_SECTOR_INFO[x].good_high)]

\* The sum clamped to the 0..100 scale of BaseRisk.
risk_score_clamped(base, macro, country) ==
    IF IsNaN(fadd(fadd(base, macro), country)) THEN NaN
    ELSE Num(clip(fadd(fadd(base, macro), country).v, 0, 100 * Scale))

\* df["BaseRisk"] + df["Macro_Adj"] + df["WB_CountryRisk"]
risk_score(base, macro, country) == fadd(fadd(base, macro), country)

\* ------------------------------------------------------------ inputs
\* Industry code cells given to the classifier.
LongCodes == {621111, 336110, 519130, 6211, 625, 999999}
NaicsCells ==
    {Absent, Null, Inf}
    \cup {IntCell(n) : n \in (-3..CodeMax) \cup LongCodes}
    \cup {FloatCell(t) : t \in {6211115, 629, 69, -629}}
    \cup {StrCell(s) : s \in {<<"6", "2", "1", "1", "1", "1">>,
                              <<"6", "2", "A">>, <<"3", "3", ".", "0">>,
                              <<" ", "2", "3", " ">>, <<>>}}
SicCells ==
    {Absent, Null, IntCell(8011), IntCell(6512), IntCell(7),
     StrCell(<<"a", "b", "c">>), StrCell(<<"2", "0", "1", "1">>)}

\* Country texts given to the normalizer: every text of at most MaxLen
\* characters of CountryAlphabet, and the alias spellings.
CountryAlphabet == {" ", "u", "U", "s", "S", "K", "a", "A"}
FreeTexts == UNION {[1..n -> CountryAlphabet] : n \in 0..MaxLen}
AliasTexts ==
    {e[1] : e \in manual}
    \cup {T_CN, T_GB,
          <<" ", "p", ".", "r", ".", " ", "c", "h", "i", "n", "a", " ">>,
          <<"P", "e", "o", "p", "l", "e", "'", "s", " ", "R", "e", "p", "u",
            "b", "l", "i", "c", " ", "o", "f", " ", "C", "h", "i", "n", "a">>,
          <<"c", "h", "i", "n", "a">>,
          <<"u", "n", "i", "t", "e", "d", " ", "k", "i", "n", "g", "d", "o",
            "m", " ">>,
          <<"G", "e", "r", "m", "a", "n", "y">>}
CountryCells == {Null} \cup {StrCell(s) : s \in FreeTexts \cup AliasTexts}

\* Observations of a fetched series, and every series of at most
\* MaxSeriesLen of them.
Observations == {NaN, Num(0), Num(1)}
AllSeries == UNION {[1..n -> Observations] : n \in 0..MaxSeriesLen}

\* Codes given to the country stress estimator, and the provider's
\* responses to its requests: no value, 1.0 and 2.0.
CodeList == <<T_CN, T_GB, T_US, <<"F", "R">>, <<"D", "E">>>>
StressResponses ==
    {WBError, WBEntries(<<Null, IntCell(1)>>),
     WBEntries(<<StrCell(<<"x">>), StrCell(<<"2">>)>>)}

FreeIndicators == {"gdp_growth", "inflation", "external_debt_gni"}
PolStabilityResponse(code) ==
    CASE code = T_CN -> WBEntries(<<IntCell(1)>>)
      [] code = T_GB -> WBEntries(<<StrCell(<<"2">>)>>)
      [] code = T_US -> WBEntries(<<IntCell(1)>>)
      [] OTHER -> WBError
\* The texts of the codes of a list that are not None.
StressCodes(country_codes) ==
    {c.s : c \in {country_codes[i] : i \in 1..Len(country_codes)} \ {None}}

\* Records of a batch: four country texts, each with three profiles of
\* (BaseRisk, NAICS, SIC) cells.
BatchCountries ==
    <<StrCell(T_US), StrCell(T_PR_CHINA), StrCell(<<"u", "k">>),
      StrCell(<<"G", "e", "r", "m", "a", "n", "y">>)>>
BatchProfiles ==
    <<[BaseRisk |-> IntCell(40), NAICS |-> IntCell(336110), SIC |-> Null],
      [BaseRisk |-> StrCell(<<"n", "/", "a">>),
       NAICS |-> StrCell(<<"6", "2", "A">>), SIC |-> IntCell(6021)],
      [BaseRisk |-> IntCell(-5), NAICS |-> Null, SIC |-> IntCell(8011)]>>
BatchRows ==
    [k \in 1..(Len(BatchCountries) * Len(BatchProfiles)) |->
       LET c == BatchCountries[((k - 1) \div Len(BatchProfiles)) + 1]
           p == BatchProfiles[((k - 1) % Len(BatchProfiles)) + 1]
       IN  [Client |-> StrCell(<<"c">>), Country |-> c,
            BaseRisk |-> p.BaseRisk, NAICS |-> p.NAICS, SIC |-> p.SIC]]
\* A record as a batch with the columns cols holds it.
project(row, cols) ==
    [f \in {"Client", "Country", "BaseRisk", "NAICS", "SIC"} |->
       IF f \in cols THEN row[f] ELSE Absent]
\* Batches of at most MaxRows records, in the order of BatchRows.
BatchIndexes ==
    {ix \in UNION {[1..n -> 1..Len(BatchRows)] : n \in 1..MaxRows} :
       \A i \in 1..(Len(ix) - 1) : ix[i] <= ix[i + 1]}
ColumnSets ==
    {{"Client", "Country", "BaseRisk", "NAICS", "SIC"},
     {"Client", "Country", "BaseRisk", "NAICS"},
     {"Client", "Country", "BaseRisk", "SIC"},
     {"Client", "Country", "BaseRisk"},
     {"Client", "Country", "NAICS", "SIC"},
     {"BaseRisk", "NAICS"}}

\* The indicator provider's answers, as (gdp_growth, inflation,
\* external_debt_gni, pol_stability) values per code.
WorldValues(code) ==
    CASE code = T_US -> <<2, 1, 1, 3>>
      [] code = T_CN -> <<5, 2, 3, 1>>
      [] OTHER -> <<1, 3, 2, 2>>
IndicatorIndex(c) == CHOOSE j \in 1..Len(Indicators) : Indicators[j] = c
WorldVaried(code, c) == WBEntries(<<Null, IntCell(WorldValues(code)[IndicatorIndex(c)])>>)
WorldGap(code, c) ==
    IF code = T_CN /\ c = "external_debt_gni" THEN WBEntries(<<Null, Null>>)
    ELSE WorldVaried(code, c)
WorldDown(code, c) == IF c = "inflation" THEN WBShort ELSE WBError
WorldFlat(code, c) == WBEntries(<<StrCell(<<"1">>)>>)
WorldMalformed(code, c) ==
    IF code = T_GB /\ c = "pol_stability" THEN WBNullEntries
    ELSE WorldVaried(code, c)
Worlds == {"varied", "gap", "down", "flat", "malformed"}
WorldResponse(w, code, c) ==
    CASE w = "varied" -> WorldVaried(code, c)
      [] w = "gap" -> WorldGap(code, c)
      [] w = "down" -> WorldDown(code, c)
      [] w = "flat" -> WorldFlat(code, c)
      [] OTHER -> WorldMalformed(code, c)

\* The time-series provider's answers: the call fails, ten observations of
\* which one is missing, twelve observations ending high.
SampleSeries ==
    {FetchFails,
     Series(<<Num(1), Num(2), Num(1), NaN, Num(2), Num(1), Num(2), Num(1),
              Num(2), Num(3)>>),
     Series(<<Num(1), Num(2), Num(1), Num(2), Num(1), Num(2), Num(1), Num(2),
              Num(1), Num(2), Num(1), Num(4)>>)}

\* ------------------------------------------------------------ idle parts
SectIdle ==
    [op |-> "idle", NAICS |-> Absent, SIC |-> Absent, code2 |-> 0,
     label |-> "", called |-> FALSE]
NormIdle == [val |-> Null, code |-> None, again |-> None, called |-> 0]
FredIdle ==
    [resp |-> FetchFails, good_high |-> FALSE, result |-> NaN,
     called |-> FALSE]
WbIdle ==
    [country_codes |-> <<>>, raised |-> FALSE, frame |-> <<>>,
     called |-> FALSE]
RunIdle ==
    [columns |-> {}, df |-> <<>>, fred_overall |-> FALSE, error |-> "",
     Sector |-> <<>>, CountryRaw |-> <<>>, CountryCode |-> <<>>,
     BaseRisk |-> <<>>, wb_df |-> <<>>, WB_CountryRisk |-> <<>>,
     sector_adj |-> <<>>, Macro_Adj |-> <<>>, RiskScore |-> <<>>]

\* ------------------------------------------------------------ classifier
InitSector ==
    /\ sect \in
         {[op |-> "infer", NAICS |-> n, SIC |-> s, code2 |-> 0,
           label |-> "", called |-> FALSE] : n \in NaicsCells, s \in SicCells}
         \cup
         {[op |-> "rule", NAICS |-> Absent, SIC |-> Absent, code2 |-> c,
           label |-> "", called |-> FALSE] : c \in -3..CodeMax}
    /\ norm = NormIdle /\ fredc = FredIdle /\ wbc = WbIdle
    /\ pc = "idle" /\ run = RunIdle

\* df.apply(infer_sector, axis=1) on one row.
InferSector ==
    /\ sect.op = "infer" /\ ~sect.called
    /\ sect' = [sect EXCEPT !.label = infer_sector(sect), !.called = TRUE]
    /\ UNCHANGED <<norm, fredc, wbc, pc, run>>

\* sector_from_two_digit(code2) on an integer.
RuleLookup ==
    /\ sect.op = "rule" /\ ~sect.called
    /\ sect' = [sect EXCEPT !.label = sector_from_two_digit(sect.code2),
                            !.called = TRUE]
    /\ UNCHANGED <<norm, fredc, wbc, pc, run>>

NextSector == InferSector \/ RuleLookup
SpecSector == InitSector /\ [][NextSector]_vars

\* ------------------------------------------------------------ normalizer
InitCountry ==
    /\ norm \in {[val |-> c, code |-> None, again |-> None, called |-> 0] :
                   c \in CountryCells}
    /\ sect = SectIdle /\ fredc = FredIdle /\ wbc = WbIdle
    /\ pc = "idle" /\ run = RunIdle

\* normalize_country_code(val)
Normalize ==
    /\ norm.called = 0
    /\ norm' = [norm EXCEPT !.code = normalize_country_code(norm.val),
                            !.called = 1]
    /\ UNCHANGED <<sect, fredc, wbc, pc, run>>

\* normalize_country_code applied to a resolved code.
NormalizeAgain ==
    /\ norm.called = 1 /\ norm.code # None
    /\ norm' = [norm EXCEPT
                  !.again = normalize_country_code(StrCell(norm.code.s)),
                  !.called = 2]
    /\ UNCHANGED <<sect, fredc, wbc, pc, run>>

NextCountry == Normalize \/ NormalizeAgain
SpecCountry == InitCountry /\ [][NextCountry]_vars

\* ------------------------------------------------------------ sector stress
InitStress ==
    /\ fredc \in {[resp |-> r, good_high |-> FALSE, result |-> NaN,
                   called |-> FALSE] :
                    r \in {FetchFails} \cup {Series(s) : s \in AllSeries}}
    /\ sect = SectIdle /\ norm = NormIdle /\ wbc = WbIdle
    /\ pc = "idle" /\ run = RunIdle

\* get_sector_stress(series_id, good_high), the provider answering resp.
SectorStress ==
    /\ ~fredc.called
    /\ \E good_high \in BOOLEAN :
         fredc' = [fredc EXCEPT
                     !.good_high = good_high,
                     !.result = get_sector_stress(fredc.resp, good_high),
                     !.called = TRUE]
    /\ UNCHANGED <<sect, norm, wbc, pc, run>>

NextStress == SectorStress
SpecStress == InitStress /\ [][NextStress]_vars

\* ------------------------------------------------------------ country stress
InitWB ==
    /\ \E k \in 0..MaxCodes, with_none \in BOOLEAN :
         wbc = [country_codes |->
                  (IF with_none THEN <<None>> ELSE <<>>)
                  \o [i \in 1..k |-> Str(CodeList[i])],
                raised |-> FALSE, frame |-> <<>>, called |-> FALSE]
    /\ sect = SectIdle /\ norm = NormIdle /\ fredc = FredIdle
    /\ pc = "idle" /\ run = RunIdle

\* get_world_bank_country_stress(country_codes), the provider answering
\* respOf to the requests: any of StressResponses for three indicators, and
\* for pol_stability PolStabilityResponse of the code.
CountryStress ==
    /\ ~wbc.called
    /\ \E free \in [StressCodes(wbc.country_codes) \X FreeIndicators
                      -> StressResponses] :
         LET respOf == [x \in StressCodes(wbc.country_codes) \X IndicatorSet |->
                          IF x[2] \in FreeIndicators THEN free[x]
                          ELSE PolStabilityResponse(x[1])]
             out == get_world_bank_country_stress(wbc.country_codes, respOf)
         IN  wbc' = [wbc EXCEPT !.raised = out.raised, !.frame = out.frame,
                                !.called = TRUE]
    /\ UNCHANGED <<sect, norm, fredc, pc, run>>

NextWB == CountryStress
SpecWB == InitWB /\ [][NextWB]_vars

\* ------------------------------------------------------------ the script
\* The state after the file upload (or the sample fallback) and the FRED
\* snapshot attempt: a batch with its columns, nothing derived yet.
Init ==
    /\ pc = "loaded"
    /\ \E cols \in ColumnSets, ix \in BatchIndexes, snapshot \in BOOLEAN :
         run = [RunIdle EXCEPT
                  !.columns = cols,
                  !.df = [i \in 1..Len(ix) |-> project(BatchRows[ix[i]], cols)],
                  !.fred_overall = snapshot]
    /\ sect = SectIdle /\ norm = NormIdle /\ fredc = FredIdle /\ wbc = WbIdle

Rows == 1..Len(run.df)
missing_basic == {"Client", "Country", "BaseRisk"} \ run.columns

\* A required column is missing: st.error and st.stop().
ValidateMissingBasic ==
    /\ pc = "loaded" /\ missing_basic # {}
    /\ pc' = "stopped"
    /\ run' = [run EXCEPT !.error = "missing required columns"]
    /\ UNCHANGED <<sect, norm, fredc, wbc>>

\* Neither NAICS nor SIC is a column: st.error and st.stop().
ValidateNoIndustry ==
    /\ pc = "loaded" /\ missing_basic = {}
    /\ run.columns \cap {"NAICS", "SIC"} = {}
    /\ pc' = "stopped"
    /\ run' = [run EXCEPT !.error = "no NAICS or SIC column"]
    /\ UNCHANGED <<sect, norm, fredc, wbc>>

\* The batch passes both tests.
ValidateOk ==
    /\ pc = "loaded" /\ missing_basic = {}
    /\ run.columns \cap {"NAICS", "SIC"} # {}
    /\ pc' = "validated"
    /\ UNCHANGED <<run, sect, norm, fredc, wbc>>

\* Sector, CountryRaw, CountryCode and the coerced BaseRisk of every record.
Derive ==
    /\ pc = "validated"
    /\ pc' = "derived"
    /\ \E raw \in {[i \in Rows |-> str_of_cell(run.df[i].Country)]} :
         run' = [run EXCEPT
                   !.Sector = [i \in Rows |-> infer_sector(run.df[i])],
                   !.CountryRaw = raw,
                   !.CountryCode =
                      [i \in Rows |-> normalize_country_code(StrCell(raw[i]))],
                   !.BaseRisk =
                      [i \in Rows |-> fillna(to_numeric(run.df[i].BaseRisk), Num(0))]]
    /\ UNCHANGED <<sect, norm, fredc, wbc>>

\* The World Bank section: the country stress of the batch's codes mapped
\* to the records, the provider answering as world w; an exception of the
\* fetch ends the script.
WorldBank ==
    /\ pc = "derived"
    /\ \E w \in Worlds, codes \in {unique_codes(run.CountryCode)} :
         IF codes = <<>>
         THEN /\ pc' = "wb_done"
              /\ run' = [run EXCEPT !.WB_CountryRisk = [i \in Rows |-> Num(0)]]
         ELSE \E out \in {get_world_bank_country_stress(
                              codes,
                              [x \in {c.s : c \in {codes[i] : i \in 1..Len(codes)}}
                                       \X IndicatorSet |->
                                 WorldResponse(w, x[1], x[2])])} :
                IF out.raised
                THEN /\ pc' = "crashed"
                     /\ run' = [run EXCEPT !.error = "TypeError"]
                ELSE /\ pc' = "wb_done"
                     /\ run' = [run EXCEPT
                                  !.wb_df = out.frame,
                                  !.WB_CountryRisk =
                                     map_country_risk(run.CountryCode, out.frame)]
    /\ UNCHANGED <<sect, norm, fredc, wbc>>

\* The FRED section when the snapshot failed: Macro_Adj stays 0.0.
MacroSkipped ==
    /\ pc = "wb_done" /\ ~run.fred_overall
    /\ pc' = "macro_done"
    /\ run' = [run EXCEPT !.Macro_Adj = [i \in Rows |-> Num(0)]]
    /\ UNCHANGED <<sect, norm, fredc, wbc>>

\* The FRED section: the stress of each sector of the US records, written
\* to the US records; the provider answers respOf[series].
MacroAdjust ==
    /\ pc = "wb_done" /\ run.fred_overall
    /\ pc' = "macro_done"
    /\ \E mask \in {us_mask(run.CountryCode)} :
       \E us_sectors \in {{run.Sector[i] : i \in {j \in Rows : mask[j]}}} :
       \E respOf \in [series_in_use(us_sectors) -> SampleSeries] :
       \E adj \in {sector_adj(us_sectors, respOf)} :
         run' = [run EXCEPT
                   !.sector_adj = adj,
                   !.Macro_Adj =
                      [i \in Rows |->
                         IF mask[i] THEN fillna(adj[run.Sector[i]], Num(0))
                         ELSE Num(0)]]
    /\ UNCHANGED <<sect, norm, fredc, wbc>>

\* RiskScore of every record.
FinalScore ==
    /\ pc = "macro_done"
    /\ pc' = "done"
    /\ run' = [run EXCEPT
                 !.RiskScore =
                    [i \in Rows |->
                       risk_score(run.BaseRisk[i], run.Macro_Adj[i],
                                  run.WB_CountryRisk[i])]]
    /\ UNCHANGED <<sect, norm, fredc, wbc>>

Next ==
    \/ ValidateMissingBasic
    \/ ValidateNoIndustry
    \/ ValidateOk
    \/ Derive
    \/ WorldBank
    \/ MacroSkipped
    \/ MacroAdjust
    \/ FinalScore

Spec == Init /\ [][Next]_vars

\* ------------------------------------------------------------ properties
SectorLabels ==
    DOMAIN FRED_SECTOR_INFO \cup {OtherUnknown}
\* The four labels whose rules come after a rule that accepts their codes.
ShadowedLabels == {Information, RealEstate, ManagementOfCompanies, AdminSupport}
\* The codes the rules of the four labels accept.
ShadowedCodes == {51, 48, 53, 55, 56} \cup (65..67) \cup (72..73)

\* The code's column is in the row, its value is not missing and int()
\* converts it.
Extractable(cell) ==
    \/ cell.kind \in {"int", "float"}
    \/ cell.kind = "str" /\ int_of_text(cell.s).ok
TableResult(cell) == sector_from_two_digit(two_digit_prefix(cell).val)

\* C1: a NAICS code whose two-digit prefix is 62, with any or no SIC value,
\* is classified "Education & Healthcare" (by infer_sector, and by
\* sector_from_two_digit given 62).
C1_Prefix62IsEducationHealthcare ==
    sect.called =>
      /\ (sect.op = "infer" /\ Extractable(sect.NAICS)
          /\ two_digit_prefix(sect.NAICS).val = 62)
            => sect.label = EducationHealthcare
      /\ (sect.op = "rule" /\ sect.code2 = 62)
            => sect.label = EducationHealthcare

\* C5: infer_sector always returns a label; it is the rule table's result
\* for the NAICS prefix when NAICS is present, not null and extractable,
\* whatever SIC is; else the rule table's result for the SIC prefix under
\* the same conditions; else "Other / Unknown".
C5_InferSectorPrecedence ==
    (sect.op = "infer" /\ sect.called) =>
      /\ sect.label \in SectorLabels
      /\ sect.label =
           IF Extractable(sect.NAICS) THEN TableResult(sect.NAICS)
           ELSE IF Extractable(sect.SIC) THEN TableResult(sect.SIC)
           ELSE OtherUnknown
\* Both codes are usable and the rule table gives them different labels.
C5_Witness ==
    /\ sect.op = "infer" /\ sect.called
    /\ Extractable(sect.NAICS) /\ Extractable(sect.SIC)
    /\ TableResult(sect.NAICS) # TableResult(sect.SIC)
    /\ sect.label = TableResult(sect.NAICS)

\* C10: sector_from_two_digit never returns "Information", "Real Estate &
\* Rental", "Management of Companies" or "Admin & Support": every code
\* their rules accept gets the label of an earlier rule; infer_sector
\* never returns them either.
C10_ShadowedLabelsNeverReturned ==
    sect.called =>
      /\ sect.label \notin ShadowedLabels
      /\ (sect.op = "rule" /\ sect.code2 \in ShadowedCodes) =>
           sect.label \in {WholesaleTrade, RetailTrade, Transportation,
                           FinanceInsurance, Professional}
\* Code 51, which the "Information" rule accepts, is classified.
C10_Witness ==
    /\ sect.op = "rule" /\ sect.called /\ sect.code2 = 51
    /\ sect.label = WholesaleTrade

\* C9: normalize_country_code returns the alias table's code when the
\* trimmed, upper-cased text is an alias, else that text when it has exactly
\* two characters, else None; the result is None or has two characters; the
\* three spellings of China give "CN" and "UK" gives "GB"; a resolved code
\* normalizes to itself.
C9_NormalizeCountryCode ==
    /\ norm.called >= 1 =>
         LET s == upper(strip(norm.val.s))
         IN  /\ norm.val = Null => norm.code = None
             /\ norm.val # Null =>
                  norm.code = IF in_manual(s) THEN Str(manual_get(s))
                              ELSE IF Len(s) = 2 THEN Str(s)
                              ELSE None
             /\ norm.code = None \/ Len(norm.code.s) = 2
             /\ (norm.val # Null
                 /\ s \in {T_PR_CHINA, T_CHINA, T_PEOPLE_S_REPUBLIC})
                  => norm.code = Str(T_CN)
             /\ (norm.val # Null /\ s = T_UK) => norm.code = Str(T_GB)
    /\ norm.called = 2 => norm.again = norm.code
\* " p.r. china " was normalized to "CN", and "CN" to itself.
C9_Witness ==
    /\ norm.called = 2
    /\ norm.val.s = <<" ", "p", ".", "r", ".", " ", "c", "h", "i", "n", "a", " ">>
    /\ norm.code = Str(T_CN) /\ norm.again = Str(T_CN)

\* The number of observations of a series that are not missing.
Observed(series) == Cardinality({i \in 1..Len(series) : ~IsNaN(series[i])})
\* The observations that are not missing are all equal.
Constant(series) ==
    \A i, j \in 1..Len(series) :
       (~IsNaN(series[i]) /\ ~IsNaN(series[j])) => series[i] = series[j]

\* C8: get_sector_stress returns 0.0 when the fetch fails, when the series
\* has fewer than 10 observations that are not missing (whatever they are
\* and whatever good_high is), and when its standard deviation is zero.
C8_ShortSeriesIsNeutral ==
    fredc.called =>
      /\ ~fredc.resp.ok => fredc.result = Num(0)
      /\ Observed(fredc.resp.series) < MinObservations => fredc.result = Num(0)
      /\ Constant(fredc.resp.series) => fredc.result = Num(0)
\* A series of ten observations, one of them missing, the others varying.
C8_Witness ==
    /\ fredc.called /\ fredc.resp.ok
    /\ Len(fredc.resp.series) = 10 /\ Observed(fredc.resp.series) = 9
    /\ ~Constant(fredc.resp.series)
    /\ fredc.result = Num(0)

\* The rows of the frame with a value of indicator c.
Available(c) == {i \in 1..Len(wbc.frame) : ~IsNaN(wbc.frame[i].value[c])}
\* The standard deviation of indicator c is zero or undefined.
Degenerate(c) ==
    \/ Cardinality(Available(c)) < 2
    \/ \A i, j \in Available(c) :
          wbc.frame[i].value[c] = wbc.frame[j].value[c]

\* C7: in get_world_bank_country_stress, an indicator whose standard
\* deviation over the batch's countries is zero or undefined (all values
\* equal, or fewer than two countries with data) has a z-score of exactly
\* 0.0 for every country, those without a value included.
C7_DegenerateIndicatorIsZero ==
    (wbc.called /\ ~wbc.raised) =>
      \A c \in IndicatorSet :
         Degenerate(c) =>
           \A i \in 1..Len(wbc.frame) : wbc.frame[i].z[c] = Num(0)
\* Two countries, one of them without a value of an indicator, and another
\* indicator whose z-scores are not zero.
C7_Witness ==
    /\ wbc.called /\ ~wbc.raised /\ Len(wbc.frame) = 2
    /\ \E c \in IndicatorSet :
          /\ Cardinality(Available(c)) = 1
          /\ \A i \in 1..2 : wbc.frame[i].z[c] = Num(0)
    /\ \E c \in IndicatorSet : ~Degenerate(c) /\ wbc.frame[1].z[c].v # 0

Scored == pc = "done"
AfterWorldBank == pc \in {"wb_done", "macro_done", "done"}
AfterMacro == pc \in {"macro_done", "done"}

\* C2: a record's Macro_Adj is nonzero only if its country code is "US" and
\* its Sector is in FRED_SECTOR_INFO; every record of another or of no
\* country code has Macro_Adj = 0.0, whatever the provider returns.
C2_MacroAdjOnlyDomestic ==
    AfterMacro =>
      \A i \in Rows :
         /\ run.Macro_Adj[i] # Num(0) =>
              /\ run.CountryCode[i] = Str(T_US)
              /\ run.Sector[i] \in DOMAIN FRED_SECTOR_INFO
         /\ run.CountryCode[i] # Str(T_US) => run.Macro_Adj[i] = Num(0)
\* A US record with an adjustment beside a record of another country whose
\* sector has a series.
C2_Witness ==
    /\ Scored
    /\ \E i, j \in Rows :
          /\ run.CountryCode[i] = Str(T_US) /\ run.Macro_Adj[i].v # 0
          /\ run.CountryCode[j] = Str(T_CN)
          /\ run.Sector[j] = run.Sector[i]
          /\ run.Macro_Adj[j] = Num(0)

\* Indicator c has two different values among the batch's countries.
Varies(c) ==
    \E i, j \in 1..Len(run.wb_df) :
       /\ ~IsNaN(run.wb_df[i].value[c]) /\ ~IsNaN(run.wb_df[j].value[c])
       /\ run.wb_df[i].value[c] # run.wb_df[j].value[c]
\* The frame's row of the country of record i has no stress value.
NoStress(i) ==
    \E j \in 1..Len(run.wb_df) :
       /\ run.wb_df[j].CountryCode = run.CountryCode[i]
       /\ \/ IsNaN(run.wb_df[j].WB_Stress)
          \/ \E c \in IndicatorSet : IsNaN(run.wb_df[j].value[c]) /\ Varies(c)

\* C3: a record whose country code is None has WB_CountryRisk = 0.0, and so
\* has a record whose country has no stress value (an indicator that varies
\* over the batch has no value for it); WB_CountryRisk is never NaN, and
\* neither is RiskScore.
C3_CountryRiskNeverMissing ==
    /\ AfterWorldBank =>
         \A i \in Rows :
            /\ run.CountryCode[i] = None => run.WB_CountryRisk[i] = Num(0)
            /\ NoStress(i) => run.WB_CountryRisk[i] = Num(0)
            /\ ~IsNaN(run.WB_CountryRisk[i])
    /\ Scored => \A i \in Rows : ~IsNaN(run.RiskScore[i])
\* Three countries, one of them without a stress value and one with a
\* stress that is not zero.
C3_Witness ==
    /\ Scored
    /\ \E i, j \in Rows :
          /\ run.CountryCode[i] # None /\ NoStress(i)
          /\ run.WB_CountryRisk[i] = Num(0)
          /\ run.WB_CountryRisk[j].v # 0

\* The BaseRisk cell of a record as a number: 0.0 when it is missing or no
\* number.
Coerced(cell) ==
    CASE cell.kind = "int" -> cell.n * Scale
      [] cell.kind = "str" /\ int_of_text(cell.s).ok -> int_of_text(cell.s).val * Scale
      [] OTHER -> 0

\* C4: RiskScore = BaseRisk + Macro_Adj + WB_CountryRisk for every record,
\* not rounded and not clamped, BaseRisk being the input coerced to a
\* number (0.0 when invalid or missing).
C4_RiskScoreIsTheSum ==
    Scored =>
      \A i \in Rows :
         /\ run.BaseRisk[i] = Num(Coerced(run.df[i].BaseRisk))
         /\ run.RiskScore[i] =
              Num(Coerced(run.df[i].BaseRisk) + run.Macro_Adj[i].v
                  + run.WB_CountryRisk[i].v)
\* A record whose three terms are not zero and whose sum is below zero.
C4_Witness ==
    /\ Scored
    /\ \E i \in Rows :
          /\ run.BaseRisk[i].v # 0 /\ run.Macro_Adj[i].v # 0
          /\ run.WB_CountryRisk[i].v # 0
          /\ run.RiskScore[i].v < 0

\* C6: a run stops only when Client, Country or BaseRisk is not a column of
\* the batch, and then before any record is classified, normalized or
\* scored; nothing else keeps the batch from being scored.
C6_OnlyMissingRequiredColumnStops ==
    pc \in {"stopped", "crashed"} =>
      /\ {"Client", "Country", "BaseRisk"} \ run.columns # {}
      /\ run.Sector = <<>> /\ run.CountryCode = <<>> /\ run.RiskScore = <<>>

\* No record of a batch gets one of the four labels, and none of them is
\* looked up in FRED_SECTOR_INFO.
ShadowedLabelsUnusedInBatches ==
    /\ \A i \in 1..Len(run.Sector) : run.Sector[i] \notin ShadowedLabels
    /\ DOMAIN run.sector_adj \cap ShadowedLabels = {}

====
